---- MODULE Spec2Model ----
(***************************************************************************)
(* A model of the meal-logging application: the AuthProvider of            *)
(* AuthContext (two backend client handles and syncSupabaseAuth between    *)
(* them) and the results screen (analyzeFood and the handleSaveMeal        *)
(* pipeline).  Every await of the source is a separate step, so that the   *)
(* asynchronous handlers interleave the way they do on the JS event loop.  *)
(***************************************************************************)
EXTENDS Integers, Sequences, FiniteSets, TLC

\* Bounds of the model.
MaxSessions == 2    \* sessions the backend issues (sign-in, sign-up)
MaxTaps == 2        \* invocations of handleSaveMeal
MaxRetries == 1     \* presses of the retry button
MaxEvents == 2      \* auth state changes awaiting delivery
MaxPresses == 2     \* presses of the capture, gallery and analyze buttons

VARIABLES
    mainSession,    \* session held by the main client handle (mainSupabase)
    dbSession,      \* token pair held by the db client handle (dbSupabase)
    issued,         \* number of sessions the backend has issued so far
    authEvents,     \* auth state changes not yet delivered to the listener
    ctxUser,        \* AuthProvider state: user
    ctxSession,     \* AuthProvider state: session
    ctxIsLoading,   \* AuthProvider state: isLoading
    pcListener,     \* position of the onAuthStateChange callback
    listenerSession,\* session read by the listener's syncSupabaseAuth
    pcSignIn,       \* position of AuthProvider.signIn
    signInSession,  \* session read by signIn's syncSupabaseAuth
    listenerSync,   \* how the listener's last syncSupabaseAuth ended
    signInSync,     \* how signIn's last syncSupabaseAuth ended
    screen,         \* the screen on top of the navigation stack
    imageUri,       \* ResultsScreen: route parameter imageUri
    result,         \* ResultsScreen state: result
    isLoading,      \* ResultsScreen state: isLoading
    error,          \* ResultsScreen state: error
    isSaving,       \* ResultsScreen state: isSaving
    analyzing,      \* analyzeFood calls awaiting analyzeFoodImage
    retries,        \* presses of the retry button so far
    view,           \* the state captured by the last render of ResultsScreen
    saves,          \* the invocations of handleSaveMeal, in order of the taps
    lastReturn,     \* how the last call of AuthProvider.signIn or signOut returned
    segment,        \* RootLayoutNav: segments[0], the group of the current route
    guardDeps,      \* RootLayoutNav: the values the guard effect last ran with
    lastRedirect,   \* RootLayoutNav: what the last run of the guard effect did
    permission,     \* CameraScreen: permission value of useCameraPermissions
    hasCameraPermission,        \* CameraScreen state
    hasMediaLibraryPermission,  \* CameraScreen state
    hasGalleryPermission,       \* CameraScreen state
    pcMount,        \* position of the mount effect of CameraScreen
    isFocused,      \* CameraScreen: useIsFocused, the camera tab is in front
    cameraRef,      \* CameraScreen: cameraRef.current holds a camera handle
    isCapturing,    \* CameraScreen state: isCapturing
    capturedImage,  \* CameraScreen state: capturedImage
    isAnalyzing,    \* CameraScreen state: isAnalyzing
    captures,       \* the invocations of takePicture, in order of the presses
    gallery,        \* the invocations of handleGalleryOpen
    analyses,       \* the invocations of handleAnalyzeImage
    retakeTimers,   \* timers set by handleRetake that have not fired yet
    camView         \* the state captured by the last render of CameraScreen

authVars == <<mainSession, dbSession, issued, authEvents, ctxUser, ctxSession,
              ctxIsLoading, pcListener, listenerSession, pcSignIn, signInSession,
              listenerSync, signInSync>>
screenVars == <<screen, imageUri, result, isLoading, error, isSaving, analyzing,
                retries, view>>
navVars == <<segment, guardDeps, lastRedirect>>
camVars == <<permission, hasCameraPermission, hasMediaLibraryPermission,
             hasGalleryPermission, pcMount, isFocused, cameraRef, isCapturing, capturedImage,
             isAnalyzing, captures, gallery, analyses, retakeTimers, camView>>
vars == <<authVars, screenVars, saves, lastReturn, navVars, camVars>>

-----------------------------------------------------------------------------
\* Sessions and tokens

Users == {"u1"}
NoUser == "none"
NoSession == [access_token |-> 0, refresh_token |-> 0, user |-> NoUser]
NoTokens == [access_token |-> 0, refresh_token |-> 0]

\* The n-th session the backend issues, for user u.
NewSession(n, u) == [access_token |-> 2 * n - 1, refresh_token |-> 2 * n, user |-> u]

\* The token pair of a session, as a client handle stores it.
TokensOf(s) == [access_token |-> s.access_token, refresh_token |-> s.refresh_token]

\* session?.user ?? null
UserOf(s) == IF s = NoSession THEN NoUser ELSE s.user

-----------------------------------------------------------------------------
\* syncSupabaseAuth

SdkOutcomes == {"ok", "error", "throws"}

\* const { data: { session } } = await mainSupabase.auth.getSession()
GetSessionRead(o) == IF o = "ok" THEN mainSession ELSE NoSession

\* if (session) ... : whether syncSupabaseAuth goes on to setSession
SyncCallsSetSession(s) == s # NoSession

\* how a syncSupabaseAuth that does not reach setSession ends
SyncEndsEarly(o) == IF o = "ok" THEN "noSession" ELSE "throws"

SwappedSetSessionArgs(s) == [access_token |-> s.refresh_token, refresh_token |-> s.access_token]

\* the argument of dbSupabase.auth.setSession
SetSessionArgs(s) == [access_token |-> s.access_token, refresh_token |-> s.refresh_token]

\* the db client's session after setSession(args) ended with outcome o
AfterSetSession(o, s) == IF o = "ok" THEN SetSessionArgs(s) ELSE dbSession

SyncRejects(end) == IF end \in {"error", "throws"} THEN "rejected" ELSE "resolved"

\* syncSupabaseAuth settles: its try block has a catch that only logs
SyncSettles(end) == "resolved"

-----------------------------------------------------------------------------
\* AuthProvider

\* What a call of an AuthProvider method gave back to its caller: the method
\* (op), the outcome of its backend call (sdk), and the value: the error
\* field of the returned object ("null" or "error"), "void", or "threw".
NoReturn == [op |-> "none", sdk |-> "none", value |-> "none"]

SignInRethrows(o, syncEnd) ==
    [op |-> "signIn", sdk |-> o,
     value |-> IF o = "throws" THEN "threw" ELSE IF o = "ok" THEN "null" ELSE "error"]

\* signIn: return { error } after a failed signInWithEmail and from the
\* catch, return { error: null } after the awaited syncSupabaseAuth
SignInReturn(o, syncEnd) ==
    [op |-> "signIn", sdk |-> o,
     value |-> IF o = "ok" /\ SyncSettles(syncEnd) = "resolved" THEN "null" ELSE "error"]

SignOutRethrows(o) ==
    [op |-> "signOut", sdk |-> o, value |-> IF o = "throws" THEN "threw" ELSE "void"]

\* signOut: both the else branch and the catch only log
SignOutReturn(o) == [op |-> "signOut", sdk |-> o, value |-> "void"]

\* fetchUserAndSession, run once on mount
fetchUserAndSession ==
    /\ ctxIsLoading
    /\ \E o \in {"ok", "throws"} :
        /\ ctxUser' = IF o = "ok" THEN UserOf(mainSession) ELSE ctxUser
        /\ ctxSession' = IF o = "ok" THEN mainSession ELSE ctxSession
    /\ ctxIsLoading' = FALSE
    /\ UNCHANGED <<mainSession, dbSession, issued, authEvents, pcListener,
                   listenerSession, pcSignIn, signInSession, listenerSync, signInSync, screenVars, saves>>
    /\ UNCHANGED <<navVars, camVars, lastReturn>>

\* the callback of supabase.auth.onAuthStateChange, up to its first await
onAuthStateChange ==
    /\ pcListener = "idle"
    /\ authEvents # <<>>
    /\ LET s == Head(authEvents) IN
        /\ ctxSession' = s
        /\ ctxUser' = UserOf(s)
        /\ pcListener' = IF s # NoSession THEN "getSession" ELSE "idle"
    /\ authEvents' = Tail(authEvents)
    /\ UNCHANGED <<mainSession, dbSession, issued, ctxIsLoading, listenerSession,
                   pcSignIn, signInSession, listenerSync, signInSync, screenVars, saves>>
    /\ UNCHANGED <<navVars, camVars, lastReturn>>

\* syncSupabaseAuth called by the listener: getSession returns
listenerGetSession ==
    /\ pcListener = "getSession"
    /\ \E o \in {"ok", "throws"} :
        /\ listenerSession' = GetSessionRead(o)
        /\ IF SyncCallsSetSession(listenerSession')
           THEN pcListener' = "setSession" /\ UNCHANGED listenerSync
           ELSE pcListener' = "idle" /\ listenerSync' = SyncEndsEarly(o)
    /\ UNCHANGED <<mainSession, dbSession, issued, authEvents, ctxUser, ctxSession,
                   ctxIsLoading, pcSignIn, signInSession, signInSync, screenVars, saves>>
    /\ UNCHANGED <<navVars, camVars, lastReturn>>

\* syncSupabaseAuth called by the listener: setSession returns
listenerSetSession ==
    /\ pcListener = "setSession"
    /\ \E o \in SdkOutcomes :
        /\ dbSession' = AfterSetSession(o, listenerSession)
        /\ listenerSync' = o
    /\ pcListener' = "idle"
    /\ listenerSession' = NoSession
    /\ UNCHANGED <<mainSession, issued, authEvents, ctxUser, ctxSession, ctxIsLoading,
                   pcSignIn, signInSession, signInSync, screenVars, saves>>
    /\ UNCHANGED <<navVars, camVars, lastReturn>>

\* signIn: signInWithEmail returns
signIn ==
    /\ pcSignIn = "idle"
    /\ \E o \in SdkOutcomes, u \in Users :
        IF o = "ok" /\ issued < MaxSessions /\ Len(authEvents) < MaxEvents
        THEN /\ issued' = issued + 1
             /\ mainSession' = NewSession(issued', u)
             /\ authEvents' = Append(authEvents, mainSession')
             /\ pcSignIn' = "getSession"
             /\ UNCHANGED lastReturn
        ELSE /\ o # "ok"
             /\ lastReturn' = SignInReturn(o, "none")
             /\ UNCHANGED <<issued, mainSession, authEvents, pcSignIn>>
    /\ UNCHANGED <<dbSession, ctxUser, ctxSession, ctxIsLoading, pcListener,
                   listenerSession, signInSession, listenerSync, signInSync, screenVars, saves>>
    /\ UNCHANGED <<navVars, camVars>>

\* syncSupabaseAuth called by signIn: getSession returns
signInGetSession ==
    /\ pcSignIn = "getSession"
    /\ \E o \in {"ok", "throws"} :
        /\ signInSession' = GetSessionRead(o)
        /\ IF SyncCallsSetSession(signInSession')
           THEN /\ pcSignIn' = "setSession"
                /\ UNCHANGED <<signInSync, lastReturn>>
           ELSE /\ pcSignIn' = "idle"
                /\ signInSync' = SyncEndsEarly(o)
                /\ lastReturn' = SignInReturn("ok", signInSync')
    /\ UNCHANGED <<mainSession, dbSession, issued, authEvents, ctxUser, ctxSession,
                   ctxIsLoading, pcListener, listenerSession, listenerSync, screenVars, saves>>
    /\ UNCHANGED <<navVars, camVars>>

\* syncSupabaseAuth called by signIn: setSession returns, signIn returns
signInSetSession ==
    /\ pcSignIn = "setSession"
    /\ \E o \in SdkOutcomes :
        /\ dbSession' = AfterSetSession(o, signInSession)
        /\ signInSync' = o
        /\ lastReturn' = SignInReturn("ok", o)
    /\ pcSignIn' = "idle"
    /\ signInSession' = NoSession
    /\ UNCHANGED <<mainSession, issued, authEvents, ctxUser, ctxSession, ctxIsLoading,
                   pcListener, listenerSession, listenerSync, screenVars, saves>>
    /\ UNCHANGED <<navVars, camVars>>

\* signUp: signUpWithEmail returns a user with a session, a user whose email
\* is still to be confirmed (no session), or an error
signUp ==
    /\ \E o \in {"session", "confirm", "error", "throws"}, u \in Users :
        CASE o = "session" /\ issued < MaxSessions /\ Len(authEvents) < MaxEvents ->
                /\ issued' = issued + 1
                /\ mainSession' = NewSession(issued', u)
                /\ authEvents' = Append(authEvents, mainSession')
                /\ ctxUser' = u
                /\ ctxSession' = mainSession'
          [] o = "confirm" ->
                /\ ctxUser' = u
                /\ ctxSession' = NoSession
                /\ UNCHANGED <<issued, mainSession, authEvents>>
          [] OTHER ->
                /\ o \in {"error", "throws"}
                /\ UNCHANGED <<issued, mainSession, authEvents, ctxUser, ctxSession>>
    /\ UNCHANGED <<dbSession, ctxIsLoading, pcListener, listenerSession, pcSignIn,
                   signInSession, listenerSync, signInSync, screenVars, saves>>
    /\ UNCHANGED <<navVars, camVars, lastReturn>>

\* signOut: supabaseSignOut returns
signOut ==
    /\ \E o \in SdkOutcomes :
        IF o = "ok" /\ Len(authEvents) < MaxEvents
        THEN /\ mainSession' = NoSession
             /\ authEvents' = Append(authEvents, NoSession)
             /\ ctxUser' = NoUser
             /\ ctxSession' = NoSession
             /\ lastReturn' = SignOutReturn(o)
        ELSE /\ o # "ok"
             /\ lastReturn' = SignOutReturn(o)
             /\ UNCHANGED <<mainSession, authEvents, ctxUser, ctxSession>>
    /\ UNCHANGED <<dbSession, issued, ctxIsLoading, pcListener, listenerSession,
                   pcSignIn, signInSession, listenerSync, signInSync, screenVars, saves>>
    /\ UNCHANGED <<navVars, camVars>>

-----------------------------------------------------------------------------
\* RootLayoutNav: the navigation guard

\* segments[0]: the (auth) group, the (tabs) group, the results screen
Segments == {"(auth)", "(tabs)", "results"}

\* the dependency list of the guard effect: [user, isLoading, segments, router]
Deps == [user |-> ctxUser, isLoading |-> ctxIsLoading, segment |-> segment]
NoDeps == [user |-> NoUser, isLoading |-> TRUE, segment |-> ""]

\* every change of route yields a new segments array: the array the guard
\* effect last ran with is not the current one any more
StaleSegments(deps) == [deps EXCEPT !.segment = ""]

GuardNeverSkips(loading) == FALSE

\* if (isLoading) return
GuardSkips(loading) == loading

GuardDecisionIgnoringGroup(user, inAuthGroup) ==
    IF user = NoUser THEN "login"
    ELSE IF inAuthGroup THEN "tabs"
    ELSE "stay"

\* the route group router.replace leads to
RedirectTarget(r) == IF r = "login" THEN "(auth)" ELSE "(tabs)"

\* the branches of the guard once loading has finished
GuardDecision(user, inAuthGroup) ==
    IF user = NoUser /\ ~inAuthGroup THEN "login"
    ELSE IF user # NoUser /\ inAuthGroup THEN "tabs"
    ELSE "stay"

\* the effect of RootLayoutNav: it runs after the first render and after
\* every render in which one of its dependencies has changed
RootLayoutNav ==
    /\ guardDeps # Deps
    /\ IF GuardSkips(ctxIsLoading)
       THEN /\ lastRedirect' = "skipped"
            /\ guardDeps' = Deps
            /\ UNCHANGED segment
       ELSE LET inAuthGroup == segment = "(auth)" IN
            /\ lastRedirect' = GuardDecision(ctxUser, inAuthGroup)
            /\ IF lastRedirect' = "stay"
               THEN /\ guardDeps' = Deps
                    /\ UNCHANGED segment
               ELSE /\ guardDeps' = StaleSegments(Deps)
                    /\ segment' = RedirectTarget(lastRedirect')
    /\ UNCHANGED <<authVars, screenVars, saves, lastReturn, camVars>>

\* the current route changes for another reason than the guard: a screen
\* pushes or replaces a route, the user follows a link or goes back
routeChange ==
    /\ \E g \in Segments \ {segment} : segment' = g
    /\ guardDeps' = StaleSegments(guardDeps)
    /\ UNCHANGED <<authVars, screenVars, saves, lastReturn, lastRedirect, camVars>>

-----------------------------------------------------------------------------
\* ResultsScreen: analysis results and their conversion

NoUri == ""
Uri == "file://processed.jpg"
NoError == ""
NoImageError == "No image provided"
AnalysisError == "Failed to analyze the food image. Please try again."

\* A nutrient value of an analysis result, in tenths; nan is a value that
\* Number() turns into NaN (undefined, a non-numeric string).
Num(t) == [nan |-> FALSE, tenths |-> t]
NaN == [nan |-> TRUE, tenths |-> 0]

NoResult == [name |-> "", calories |-> NaN, protein |-> NaN, carbs |-> NaN, fat |-> NaN]

\* What analyzeFoodImage may resolve to.
Results ==
    { [name |-> "pizza", calories |-> Num(2855), protein |-> Num(124),
       carbs |-> Num(365), fat |-> NaN],
      [name |-> "salad", calories |-> Num(1204), protein |-> Num(5),
       carbs |-> Num(-5), fat |-> Num(0)] }

TruncNutrient(v) == IF v.nan THEN 0 ELSE v.tenths \div 10

\* Math.round(Number(v)) || 0 : round half up, NaN and -0 become 0
RoundNutrient(v) == IF v.nan THEN 0 ELSE (v.tenths + 5) \div 10

UploadedUrl == "https://storage/thumbnails/meal.jpg"
Placeholder == "https://via.placeholder.com/300x200?text=Upload+Failed"

\* the parameters of supabase.rpc('insert_meal', ...)
RpcParams(r, url) ==
    [p_name |-> r.name, p_thumbnail_url |-> url,
     p_calories |-> RoundNutrient(r.calories), p_protein |-> RoundNutrient(r.protein),
     p_carbs |-> RoundNutrient(r.carbs), p_fat |-> RoundNutrient(r.fat)]

UnroundedInsertRow(r, u, url) ==
    [name |-> r.name, user_id |-> u,
     calories |-> TruncNutrient(r.calories), protein |-> TruncNutrient(r.protein),
     carbs |-> TruncNutrient(r.carbs), fat |-> TruncNutrient(r.fat),
     image_url |-> url]

\* the row of supabase.from('meals').insert(...) (meal_time left out)
InsertRow(r, u, url) ==
    [name |-> r.name, user_id |-> u,
     calories |-> RoundNutrient(r.calories), protein |-> RoundNutrient(r.protein),
     carbs |-> RoundNutrient(r.carbs), fat |-> RoundNutrient(r.fat),
     image_url |-> url]

NoRpcParams == RpcParams(NoResult, "")
NoInsertRow == InsertRow(NoResult, NoUser, "")

MissingDataAlert == "Missing data required to save meal"
SuccessAlert == "Meal saved successfully"
FailedAlert == "Failed to save meal"
NoAlert == ""

-----------------------------------------------------------------------------
\* ResultsScreen: mount, render, analyzeFood

\* what a render of ResultsScreen captures for its handlers and buttons
Snapshot ==
    [isSaving |-> isSaving, user |-> ctxUser, result |-> result,
     isLoading |-> isLoading, error |-> error]

NoView == [isSaving |-> FALSE, user |-> NoUser, result |-> NoResult,
           isLoading |-> TRUE, error |-> NoError]

\* router.push to /results: the screen mounts, renders once and runs its
\* effect (one visit of the results screen is modelled)
openResults ==
    /\ screen = "camera"
    /\ screen' = "results"
    /\ \E uri \in {NoUri, Uri} :
        /\ imageUri' = uri
        /\ IF uri = NoUri
           THEN /\ error' = NoImageError
                /\ isLoading' = FALSE
                /\ analyzing' = 0
           ELSE /\ error' = NoError
                /\ isLoading' = TRUE
                /\ analyzing' = 1
    /\ result' = NoResult
    /\ isSaving' = FALSE
    /\ view' = [NoView EXCEPT !.user = ctxUser]
    /\ UNCHANGED <<authVars, retries, saves>>
    /\ UNCHANGED <<navVars, camVars, lastReturn>>

\* a re-render of ResultsScreen after a state or context change
render ==
    /\ screen = "results"
    /\ view # Snapshot
    /\ view' = Snapshot
    /\ UNCHANGED <<authVars, screen, imageUri, result, isLoading, error, isSaving,
                   analyzing, retries, saves>>
    /\ UNCHANGED <<navVars, camVars, lastReturn>>

\* analyzeFood: analyzeFoodImage returns
analyzeFood ==
    /\ analyzing > 0
    /\ analyzing' = analyzing - 1
    /\ \E o \in {"ok", "throws"}, r \in Results :
        IF o = "ok"
        THEN result' = r /\ UNCHANGED error
        ELSE error' = AnalysisError /\ UNCHANGED result
    /\ isLoading' = FALSE
    /\ UNCHANGED <<authVars, screen, imageUri, isSaving, retries, view, saves>>
    /\ UNCHANGED <<navVars, camVars, lastReturn>>

\* handleRetry: the retry button is shown while the rendered error is set
handleRetry ==
    /\ screen = "results"
    /\ view.error # NoError
    /\ retries < MaxRetries
    /\ retries' = retries + 1
    /\ isLoading' = TRUE
    /\ error' = NoError
    /\ analyzing' = analyzing + 1
    /\ UNCHANGED <<authVars, screen, imageUri, result, isSaving, view, saves>>
    /\ UNCHANGED <<navVars, camVars, lastReturn>>

\* the action buttons are rendered: imageUri && !isLoading && result
ButtonsShown ==
    /\ screen = "results"
    /\ imageUri # NoUri
    /\ ~view.isLoading
    /\ view.result # NoResult

\* handleCancel (the button is disabled while the rendered isSaving is set)
handleCancel ==
    /\ ButtonsShown
    /\ ~view.isSaving
    /\ screen' = "tabs"
    /\ UNCHANGED <<authVars, imageUri, result, isLoading, error, isSaving, analyzing,
                   retries, view, saves>>
    /\ UNCHANGED <<navVars, camVars, lastReturn>>

\* handleBack
handleBack ==
    /\ screen = "results"
    /\ screen' = "back"
    /\ UNCHANGED <<authVars, imageUri, result, isLoading, error, isSaving, analyzing,
                   retries, view, saves>>
    /\ UNCHANGED <<navVars, camVars, lastReturn>>

-----------------------------------------------------------------------------
\* ResultsScreen: handleSaveMeal

\* An invocation of handleSaveMeal: its position, the values its closure
\* captured, its locals, the calls it has made with their outcomes (log),
\* and what it has reported.
NewSave(r, u) ==
    [pc |-> "getSession", result |-> r, user |-> u, session |-> NoSession,
     thumbnailUrl |-> "", rpcParams |-> NoRpcParams, insertRow |-> NoInsertRow,
     log |-> <<"sync">>, alert |-> NoAlert, navigated |-> FALSE]

MissingDataIgnoringUser(r, uri, u) == r = NoResult \/ uri = NoUri

\* if (!result || !imageUri || !user)
MissingData(r, uri, u) == r = NoResult \/ uri = NoUri \/ u = NoUser

SaveButtonEnabled == ~view.isSaving

\* a tap on Save Meal: handleSaveMeal up to its first await
handleSaveMeal ==
    /\ ButtonsShown
    /\ SaveButtonEnabled
    /\ Len(saves) < MaxTaps
    /\ IF MissingData(view.result, imageUri, view.user)
       THEN /\ saves' = Append(saves, [NewSave(view.result, view.user) EXCEPT
                                !.pc = "done", !.log = <<>>, !.alert = MissingDataAlert])
            /\ UNCHANGED isSaving
       ELSE /\ saves' = Append(saves, NewSave(view.result, view.user))
            /\ isSaving' = TRUE
    /\ UNCHANGED <<authVars, screen, imageUri, result, isLoading, error, analyzing,
                   retries, view>>
    /\ UNCHANGED <<navVars, camVars, lastReturn>>

Logged(sv, es) == [sv EXCEPT !.log = sv.log \o es]

StartUploadUnawaited(sv) == [Logged(sv, <<"upload", "synced">>) EXCEPT !.pc = "upload", !.session = NoSession]

\* syncSupabaseAuth has returned: uploadThumbnail is called
StartUpload(sv) == [Logged(sv, <<"synced", "upload">>) EXCEPT !.pc = "upload", !.session = NoSession]

\* syncSupabaseAuth called by handleSaveMeal: getSession returns
saveGetSession(i) ==
    /\ saves[i].pc = "getSession"
    /\ \E o \in {"ok", "throws"} :
        LET s == GetSessionRead(o) IN
        saves' = [saves EXCEPT ![i] =
                    IF SyncCallsSetSession(s)
                    THEN [@ EXCEPT !.pc = "setSession", !.session = s]
                    ELSE StartUpload(@)]
    /\ UNCHANGED <<authVars, screenVars>>
    /\ UNCHANGED <<navVars, camVars, lastReturn>>

\* syncSupabaseAuth called by handleSaveMeal: setSession returns
saveSetSession(i) ==
    /\ saves[i].pc = "setSession"
    /\ \E o \in SdkOutcomes : dbSession' = AfterSetSession(o, saves[i].session)
    /\ saves' = [saves EXCEPT ![i] = StartUpload(@)]
    /\ UNCHANGED <<mainSession, issued, authEvents, ctxUser, ctxSession, ctxIsLoading,
                   pcListener, listenerSession, pcSignIn, signInSession, listenerSync,
                   signInSync, screenVars>>
    /\ UNCHANGED <<navVars, camVars, lastReturn>>

ThumbnailUrlNoPlaceholder(o) == IF o = "ok" THEN UploadedUrl ELSE ""

\* thumbnailUrl after uploadThumbnail ended with outcome o
ThumbnailUrl(o) == IF o = "ok" THEN UploadedUrl ELSE Placeholder

\* uploadThumbnail returns; supabase.auth.getUser is called
saveUpload(i) ==
    /\ saves[i].pc = "upload"
    /\ \E o \in {"ok", "throws"} :
        saves' = [saves EXCEPT ![i] =
                    [Logged(@, <<IF o = "ok" THEN "uploadOk" ELSE "uploadThrew", "getUser">>)
                        EXCEPT !.pc = "getUser", !.thumbnailUrl = ThumbnailUrl(o)]]
    /\ UNCHANGED <<authVars, screenVars>>
    /\ UNCHANGED <<navVars, camVars, lastReturn>>

\* what the db client's auth.getUser() may answer
GetUserOutcomes == IF dbSession = NoTokens THEN {"noUser"} ELSE {"user", "noUser", "throws"}

\* the rpc insert_meal is issued
IssueRpc(sv, es) ==
    [Logged(sv, es \o <<"rpc">>) EXCEPT
        !.pc = "rpc", !.rpcParams = RpcParams(sv.result, sv.thumbnailUrl)]

\* catch (sqlError): the direct insert into meals is issued
IssueInsert(sv, es) ==
    [Logged(sv, es \o <<"insert">>) EXCEPT
        !.pc = "insert", !.insertRow = InsertRow(sv.result, sv.user, sv.thumbnailUrl)]

\* if (!user) throw ... : whether the rpc is reached after getUser
RpcReached(o) == o = "user"

\* getUser returns
saveGetUser(i) ==
    /\ saves[i].pc = "getUser"
    /\ \E o \in GetUserOutcomes :
        LET e == CASE o = "user" -> "user" [] o = "noUser" -> "noUser" [] OTHER -> "getUserThrew" IN
        saves' = [saves EXCEPT ![i] =
                    IF RpcReached(o) THEN IssueRpc(@, <<e>>) ELSE IssueInsert(@, <<e>>)]
    /\ UNCHANGED <<authVars, screenVars>>
    /\ UNCHANGED <<navVars, camVars, lastReturn>>

SucceededWithoutNavigation(sv, es) ==
    [Logged(sv, es) EXCEPT !.pc = "done", !.alert = SuccessAlert]

\* the end of the try block: success is reported, the screen is replaced
Succeeded(sv, es) ==
    [Logged(sv, es) EXCEPT !.pc = "done", !.alert = SuccessAlert, !.navigated = TRUE]

FailedRetries(sv, es) == IssueInsert(sv, es)

\* the outer catch: failure is reported
Failed(sv, es) ==
    [Logged(sv, es) EXCEPT !.pc = "done", !.alert = FailedAlert]

\* the rpc returns: data, or an error that is thrown on, or it throws itself
saveRpc(i) ==
    /\ saves[i].pc = "rpc"
    /\ \E o \in SdkOutcomes :
        IF o = "ok"
        THEN /\ saves' = [saves EXCEPT ![i] = Succeeded(@, <<"rpcOk">>)]
             /\ isSaving' = FALSE
             /\ screen' = "tabs"
        ELSE /\ saves' = [saves EXCEPT ![i] =
                            IssueInsert(@, <<"rpcFailed">>)]
             /\ UNCHANGED <<isSaving, screen>>
    /\ UNCHANGED <<authVars, imageUri, result, isLoading, error, analyzing, retries, view>>
    /\ UNCHANGED <<navVars, camVars, lastReturn>>

\* the direct insert returns: data, or an error that is thrown on, or it throws
saveInsert(i) ==
    /\ saves[i].pc = "insert"
    /\ \E o \in SdkOutcomes :
        IF o = "ok"
        THEN /\ saves' = [saves EXCEPT ![i] = Succeeded(@, <<"insertOk">>)]
             /\ screen' = "tabs"
        ELSE /\ saves' = [saves EXCEPT ![i] =
                            Failed(@, <<"insertFailed">>)]
             /\ UNCHANGED screen
    /\ isSaving' = FALSE
    /\ UNCHANGED <<authVars, imageUri, result, isLoading, error, analyzing, retries, view>>
    /\ UNCHANGED <<navVars, camVars, lastReturn>>

-----------------------------------------------------------------------------
\* CameraScreen

NoImage == ""
Photo == "file://photo.jpg"
Picked == "file://picked.jpg"

\* the URI processImageForAI resolves to for a captured image
Processed(img) == IF img = Photo THEN "file://photo.ai.jpg" ELSE "file://picked.ai.jpg"

\* what a render of CameraScreen captures for its handlers, and what it shows
CameraSnapshot ==
    [capturedImage |-> capturedImage, hasGalleryPermission |-> hasGalleryPermission,
     hasCameraPermission |-> hasCameraPermission]

\* the state of CameraScreen at its first render, before its mount effect,
\* with p the permission value the hook has at that render
CameraUnmounted(p) ==
    /\ permission = p
    /\ hasCameraPermission = "null"
    /\ hasMediaLibraryPermission = "null"
    /\ hasGalleryPermission = "null"
    /\ pcMount = "camera"
    /\ isFocused = TRUE
    /\ cameraRef = FALSE
    /\ isCapturing = FALSE
    /\ capturedImage = NoImage
    /\ isAnalyzing = FALSE
    /\ captures = <<>>
    /\ gallery = <<>>
    /\ analyses = <<>>
    /\ retakeTimers = 0
    /\ camView = CameraSnapshot

PermissionAnswers == {"granted", "denied"}

\* the mount effect: the camera permission, taken from the hook if it has a
\* value and requested otherwise
mountCamera ==
    /\ pcMount = "camera"
    /\ IF permission # "null"
       THEN /\ hasCameraPermission' = permission
            /\ pcMount' = "mediaLibrary"
            /\ UNCHANGED permission
       ELSE \E o \in PermissionAnswers \cup {"throws"} :
            IF o = "throws"
            THEN /\ pcMount' = "failed"
                 /\ UNCHANGED <<permission, hasCameraPermission>>
            ELSE /\ permission' = o
                 /\ hasCameraPermission' = o
                 /\ pcMount' = "mediaLibrary"
    /\ UNCHANGED <<authVars, screenVars, saves, lastReturn, navVars,
                   hasMediaLibraryPermission, hasGalleryPermission, isFocused, cameraRef,
                   isCapturing, capturedImage, isAnalyzing, captures, gallery, analyses,
                   retakeTimers, camView>>

\* the mount effect: MediaLibrary.requestPermissionsAsync returns
mountMediaLibrary ==
    /\ pcMount = "mediaLibrary"
    /\ \E o \in PermissionAnswers \cup {"throws"} :
        IF o = "throws"
        THEN /\ pcMount' = "failed"
             /\ UNCHANGED hasMediaLibraryPermission
        ELSE /\ hasMediaLibraryPermission' = o
             /\ pcMount' = "gallery"
    /\ UNCHANGED <<authVars, screenVars, saves, lastReturn, navVars, permission,
                   hasCameraPermission, hasGalleryPermission, isFocused, cameraRef,
                   isCapturing, capturedImage, isAnalyzing, captures, gallery, analyses,
                   retakeTimers, camView>>

\* the mount effect: ImagePicker.requestMediaLibraryPermissionsAsync returns
mountGallery ==
    /\ pcMount = "gallery"
    /\ \E o \in PermissionAnswers \cup {"throws"} :
        IF o = "throws"
        THEN /\ pcMount' = "failed"
             /\ UNCHANGED hasGalleryPermission
        ELSE /\ hasGalleryPermission' = o
             /\ pcMount' = "done"
    /\ UNCHANGED <<authVars, screenVars, saves, lastReturn, navVars, permission,
                   hasCameraPermission, hasMediaLibraryPermission, isFocused, cameraRef,
                   isCapturing, capturedImage, isAnalyzing, captures, gallery, analyses,
                   retakeTimers, camView>>

\* the Grant Permission button of the permission view: requestPermission of
\* the hook is its handler
grantPermission ==
    /\ camView.hasCameraPermission = "denied"
    /\ \E o \in PermissionAnswers : permission' = o
    /\ UNCHANGED <<authVars, screenVars, saves, lastReturn, navVars,
                   hasCameraPermission, hasMediaLibraryPermission, hasGalleryPermission,
                   pcMount, isFocused, cameraRef, isCapturing, capturedImage, isAnalyzing,
                   captures, gallery, analyses, retakeTimers, camView>>

\* the camera tab gains or loses focus
focusChange ==
    /\ isFocused' = ~isFocused
    /\ UNCHANGED <<authVars, screenVars, saves, lastReturn, navVars, permission,
                   hasCameraPermission, hasMediaLibraryPermission, hasGalleryPermission,
                   pcMount, cameraRef, isCapturing, capturedImage, isAnalyzing, captures,
                   gallery, analyses, retakeTimers, camView>>

\* the CameraView is rendered: the permission is granted, no image is
\* captured, the tab is focused
CameraViewRendered ==
    hasCameraPermission = "granted" /\ capturedImage = NoImage /\ isFocused

\* a re-render of CameraScreen after a state change; the ref follows the
\* mounting and unmounting of the CameraView
renderCamera ==
    /\ camView # CameraSnapshot \/ cameraRef # CameraViewRendered
    /\ camView' = CameraSnapshot
    /\ cameraRef' = CameraViewRendered
    /\ UNCHANGED <<authVars, screenVars, saves, lastReturn, navVars, permission,
                   hasCameraPermission, hasMediaLibraryPermission, hasGalleryPermission,
                   pcMount, isFocused, isCapturing, capturedImage, isAnalyzing, captures,
                   gallery, analyses, retakeTimers>>

\* The handlers are passed to CameraControls and ImagePreview, which decide
\* when to call them: a handler is called with the values its render
\* captured, any time after the permission views have given way.
HandlersPassed ==
    /\ camView.hasCameraPermission = "granted"
    /\ Len(captures) + Len(gallery) + Len(analyses) < MaxPresses

-----------------------------------------------------------------------------
\* CameraScreen: takePicture

\* An invocation of takePicture: its position and how the capture went
NewCapture == [pc |-> "capturing", outcome |-> "none"]

\* if (!cameraRef.current) return
NoCameraHandle == ~cameraRef

\* takePicture up to its await
takePicture ==
    /\ HandlersPassed
    /\ IF NoCameraHandle
       THEN /\ captures' = Append(captures, [pc |-> "done", outcome |-> "noHandle"])
            /\ UNCHANGED isCapturing
       ELSE /\ captures' = Append(captures, NewCapture)
            /\ isCapturing' = TRUE
    /\ UNCHANGED <<authVars, screenVars, saves, lastReturn, navVars, permission,
                   hasCameraPermission, hasMediaLibraryPermission, hasGalleryPermission,
                   pcMount, isFocused, cameraRef, capturedImage, isAnalyzing, gallery,
                   analyses, retakeTimers, camView>>

AfterCaptureAlways(o) == Photo

\* setCapturedImage(photo) after the await, nothing in the catch
AfterCapture(o) == IF o = "ok" THEN Photo ELSE capturedImage

\* takePictureAsync returns a photo or throws
takePictureAsync(i) ==
    /\ captures[i].pc = "capturing"
    /\ \E o \in {"ok", "throws"} :
        /\ captures' = [captures EXCEPT ![i] = [pc |-> "done", outcome |-> o]]
        /\ capturedImage' = AfterCapture(o)
    /\ isCapturing' = FALSE
    /\ UNCHANGED <<authVars, screenVars, saves, lastReturn, navVars, permission,
                   hasCameraPermission, hasMediaLibraryPermission, hasGalleryPermission,
                   pcMount, isFocused, cameraRef, isAnalyzing, gallery, analyses,
                   retakeTimers, camView>>

-----------------------------------------------------------------------------
\* CameraScreen: handleGalleryOpen

\* An invocation of handleGalleryOpen: its position, how it came by the
\* gallery permission, and what the picker returned
NewGalleryOpen(held) ==
    [pc |-> IF held THEN "picker" ELSE "request",
     permission |-> IF held THEN "held" ELSE "none", picker |-> "none"]

\* handleGalleryOpen up to its first await: the permission request if the
\* rendered hasGalleryPermission is not true, the picker otherwise
handleGalleryOpen ==
    /\ HandlersPassed
    /\ gallery' = Append(gallery, NewGalleryOpen(camView.hasGalleryPermission = "granted"))
    /\ UNCHANGED <<authVars, screenVars, saves, lastReturn, navVars, permission,
                   hasCameraPermission, hasMediaLibraryPermission, hasGalleryPermission,
                   pcMount, isFocused, cameraRef, isCapturing, capturedImage, isAnalyzing,
                   captures, analyses, retakeTimers, camView>>

RequestGrantedAlways(o) == TRUE

\* if (!galleryStatus.granted) return
RequestGranted(o) == o = "granted"

\* requestMediaLibraryPermissionsAsync returns
galleryRequest(i) ==
    /\ gallery[i].pc = "request"
    /\ \E o \in PermissionAnswers \cup {"throws"} :
        IF o # "throws" /\ RequestGranted(o)
        THEN /\ gallery' = [gallery EXCEPT ![i].pc = "picker", ![i].permission = o]
             /\ hasGalleryPermission' = o
        ELSE /\ gallery' = [gallery EXCEPT ![i].pc = "done", ![i].permission = o]
             /\ UNCHANGED hasGalleryPermission
    /\ UNCHANGED <<authVars, screenVars, saves, lastReturn, navVars, permission,
                   hasCameraPermission, hasMediaLibraryPermission, pcMount, isFocused,
                   cameraRef, isCapturing, capturedImage, isAnalyzing, captures, analyses,
                   retakeTimers, camView>>

\* what launchImageLibraryAsync gives back
PickerOutcomes == {"asset", "canceled", "noAsset", "throws"}

\* if (!result.canceled && result.assets && result.assets.length > 0)
AfterPicker(o) == IF o = "asset" THEN Picked ELSE capturedImage

\* launchImageLibraryAsync returns
galleryPicker(i) ==
    /\ gallery[i].pc = "picker"
    /\ \E o \in PickerOutcomes :
        /\ gallery' = [gallery EXCEPT ![i].pc = "done", ![i].picker = o]
        /\ capturedImage' = AfterPicker(o)
    /\ UNCHANGED <<authVars, screenVars, saves, lastReturn, navVars, permission,
                   hasCameraPermission, hasMediaLibraryPermission, hasGalleryPermission,
                   pcMount, isFocused, cameraRef, isCapturing, isAnalyzing, captures,
                   analyses, retakeTimers, camView>>

-----------------------------------------------------------------------------
\* CameraScreen: handleAnalyzeImage, handleRetake

\* An invocation of handleAnalyzeImage: its position, the image its render
\* captured, how processImageForAI went, and the imageUri parameter of the
\* route it pushed
NewAnalysis(img) == [pc |-> "processing", image |-> img, outcome |-> "none", pushed |-> NoUri]

\* handleAnalyzeImage up to its await
handleAnalyzeImage ==
    /\ HandlersPassed
    /\ IF camView.capturedImage = NoImage
       THEN /\ analyses' = Append(analyses, [NewAnalysis(NoImage) EXCEPT
                                     !.pc = "done", !.outcome = "noImage"])
            /\ UNCHANGED isAnalyzing
       ELSE /\ analyses' = Append(analyses, NewAnalysis(camView.capturedImage))
            /\ isAnalyzing' = TRUE
    /\ UNCHANGED <<authVars, screenVars, saves, lastReturn, navVars, permission,
                   hasCameraPermission, hasMediaLibraryPermission, hasGalleryPermission,
                   pcMount, isFocused, cameraRef, isCapturing, capturedImage, captures,
                   gallery, retakeTimers, camView>>

PushedAlways(o, img) == Processed(img)

\* router.push({ pathname: "/results", params: { imageUri: processedImageUri } })
PushedParam(o, img) == IF o = "ok" THEN Processed(img) ELSE NoUri

\* processImageForAI returns the processed URI or throws
processImageForAI(i) ==
    /\ analyses[i].pc = "processing"
    /\ \E o \in {"ok", "throws"} :
        /\ analyses' = [analyses EXCEPT ![i].pc = "done", ![i].outcome = o,
                                        ![i].pushed = PushedParam(o, analyses[i].image)]
        /\ isAnalyzing' = IF o = "ok" THEN isAnalyzing ELSE FALSE
    /\ UNCHANGED <<authVars, screenVars, saves, lastReturn, navVars, permission,
                   hasCameraPermission, hasMediaLibraryPermission, hasGalleryPermission,
                   pcMount, isFocused, cameraRef, isCapturing, capturedImage, captures,
                   gallery, retakeTimers, camView>>

\* handleRetake: isAnalyzing is reset, a timer of 300 ms is set
handleRetake ==
    /\ camView.hasCameraPermission = "granted"
    /\ camView.capturedImage # NoImage
    /\ retakeTimers = 0
    /\ isAnalyzing' = FALSE
    /\ retakeTimers' = retakeTimers + 1
    /\ UNCHANGED <<authVars, screenVars, saves, lastReturn, navVars, permission,
                   hasCameraPermission, hasMediaLibraryPermission, hasGalleryPermission,
                   pcMount, isFocused, cameraRef, isCapturing, capturedImage, captures,
                   gallery, analyses, camView>>

\* the timer of handleRetake fires
retakeTimer ==
    /\ retakeTimers > 0
    /\ retakeTimers' = retakeTimers - 1
    /\ capturedImage' = NoImage
    /\ UNCHANGED <<authVars, screenVars, saves, lastReturn, navVars, permission,
                   hasCameraPermission, hasMediaLibraryPermission, hasGalleryPermission,
                   pcMount, isFocused, cameraRef, isCapturing, isAnalyzing, captures,
                   gallery, analyses, camView>>

-----------------------------------------------------------------------------
\* Specifications

Init ==
    /\ mainSession = NoSession
    /\ dbSession = NoTokens
    /\ issued = 0
    /\ authEvents = <<>>
    /\ ctxUser = NoUser
    /\ ctxSession = NoSession
    /\ ctxIsLoading = TRUE
    /\ pcListener = "idle"
    /\ listenerSession = NoSession
    /\ pcSignIn = "idle"
    /\ signInSession = NoSession
    /\ listenerSync = "none"
    /\ signInSync = "none"
    /\ screen = "camera"
    /\ imageUri = NoUri
    /\ result = NoResult
    /\ isLoading = TRUE
    /\ error = NoError
    /\ isSaving = FALSE
    /\ analyzing = 0
    /\ retries = 0
    /\ view = NoView
    /\ saves = <<>>
    /\ lastReturn = NoReturn
    /\ segment = "(tabs)"
    /\ guardDeps = NoDeps
    /\ lastRedirect = "none"
    /\ CameraUnmounted("null")

Next ==
    \/ fetchUserAndSession
    \/ onAuthStateChange
    \/ listenerGetSession
    \/ listenerSetSession
    \/ signIn
    \/ signInGetSession
    \/ signInSetSession
    \/ signUp
    \/ signOut

\* The AuthProvider: the app from its start, before the results screen opens.
Spec == Init /\ [][Next]_vars

NextNav ==
    \/ fetchUserAndSession
    \/ onAuthStateChange
    \/ listenerGetSession
    \/ listenerSetSession
    \/ signUp
    \/ signOut
    \/ RootLayoutNav
    \/ routeChange

\* The root layout: the navigation guard below the AuthProvider.  The user
\* signs up and out; a sign-in changes the context's user as a sign-up
\* with a session does, through the auth state change it emits.
SpecNav == Init /\ [][NextNav]_vars

S1 == NewSession(1, "u1")

\* The auth states in which the results screen is opened, each of them
\* reachable under Spec: no handler of the AuthProvider in flight and no
\* event pending, the user signed in with the db client synchronized (or
\* not: setSession failed), signed out again, or never signed in.  While the
\* results screen is on top the AuthProvider is at rest: only the screen's
\* own syncSupabaseAuth calls touch the client handles.
AuthAtOpen ==
    { [main |-> S1, db |-> TokensOf(S1), user |-> "u1", issued |-> 1],
      [main |-> S1, db |-> NoTokens, user |-> "u1", issued |-> 1],
      [main |-> NoSession, db |-> TokensOf(S1), user |-> NoUser, issued |-> 1],
      [main |-> NoSession, db |-> NoTokens, user |-> NoUser, issued |-> 0] }

\* the AuthProvider is at rest in auth state a
AuthAtRestIn(a) ==
    /\ mainSession = a.main
    /\ dbSession = a.db
    /\ ctxUser = a.user
    /\ ctxSession = a.main
    /\ issued = a.issued
    /\ authEvents = <<>>
    /\ ctxIsLoading = FALSE
    /\ pcListener = "idle"
    /\ pcSignIn = "idle"

InitSave ==
    /\ \E a \in AuthAtOpen : AuthAtRestIn(a)
    /\ listenerSession = NoSession
    /\ signInSession = NoSession
    /\ listenerSync = "none"
    /\ signInSync = "none"
    /\ screen = "camera"
    /\ imageUri = NoUri
    /\ result = NoResult
    /\ isLoading = TRUE
    /\ error = NoError
    /\ isSaving = FALSE
    /\ analyzing = 0
    /\ retries = 0
    /\ view = NoView
    /\ saves = <<>>
    /\ lastReturn = NoReturn
    /\ segment = "(tabs)"
    /\ guardDeps = NoDeps
    /\ lastRedirect = "none"
    /\ CameraUnmounted("null")

NextSave ==
    \/ openResults
    \/ render
    \/ analyzeFood
    \/ handleRetry
    \/ handleCancel
    \/ handleBack
    \/ handleSaveMeal
    \/ \E i \in 1..Len(saves) : saveGetSession(i)
    \/ \E i \in 1..Len(saves) : saveSetSession(i)
    \/ \E i \in 1..Len(saves) : saveUpload(i)
    \/ \E i \in 1..Len(saves) : saveGetUser(i)
    \/ \E i \in 1..Len(saves) : saveRpc(i)
    \/ \E i \in 1..Len(saves) : saveInsert(i)

\* The results screen, from the moment it is opened.
SpecSave == InitSave /\ [][NextSave]_vars

\* the AuthProvider and the other screens at rest, a user signed in
InitCamera ==
    /\ AuthAtRestIn([main |-> S1, db |-> TokensOf(S1), user |-> "u1", issued |-> 1])
    /\ listenerSession = NoSession
    /\ signInSession = NoSession
    /\ listenerSync = "none"
    /\ signInSync = "none"
    /\ screen = "camera"
    /\ imageUri = NoUri
    /\ result = NoResult
    /\ isLoading = TRUE
    /\ error = NoError
    /\ isSaving = FALSE
    /\ analyzing = 0
    /\ retries = 0
    /\ view = NoView
    /\ saves = <<>>
    /\ lastReturn = NoReturn
    /\ segment = "(tabs)"
    /\ guardDeps = Deps
    /\ lastRedirect = "stay"
    /\ \E p \in PermissionAnswers \cup {"null"} : CameraUnmounted(p)

NextCamera ==
    \/ mountCamera
    \/ mountMediaLibrary
    \/ mountGallery
    \/ grantPermission
    \/ focusChange
    \/ renderCamera
    \/ takePicture
    \/ \E i \in 1..Len(captures) : takePictureAsync(i)
    \/ handleGalleryOpen
    \/ \E i \in 1..Len(gallery) : galleryRequest(i)
    \/ \E i \in 1..Len(gallery) : galleryPicker(i)
    \/ handleAnalyzeImage
    \/ \E i \in 1..Len(analyses) : processImageForAI(i)
    \/ handleRetake
    \/ retakeTimer

\* The camera screen of a signed-in user, from its mount.
SpecCamera == InitCamera /\ [][NextCamera]_vars

\* What the runtime schedules on its own: the steps of the mount effect and
\* the awaited calls return, a render follows every state change, the timer
\* of handleRetake fires.  Presses and focus changes are up to the user.
CameraFairness ==
    /\ WF_vars(mountCamera)
    /\ WF_vars(mountMediaLibrary)
    /\ WF_vars(mountGallery)
    /\ WF_vars(renderCamera)
    /\ WF_vars(retakeTimer)
    /\ WF_vars(\E i \in 1..Len(captures) : takePictureAsync(i))
    /\ WF_vars(\E i \in 1..Len(gallery) : galleryRequest(i))
    /\ WF_vars(\E i \in 1..Len(gallery) : galleryPicker(i))
    /\ WF_vars(\E i \in 1..Len(analyses) : processImageForAI(i))

\* The camera screen with the runtime's scheduling.
SpecCameraFair == SpecCamera /\ CameraFairness

-----------------------------------------------------------------------------
\* Properties

InLog(sv, e) == \E k \in 1..Len(sv.log) : sv.log[k] = e
Count(sv, e) == Cardinality({k \in 1..Len(sv.log) : sv.log[k] = e})
\* a occurs in the log, and before every occurrence of b
Precedes(sv, a, b) ==
    \A k \in 1..Len(sv.log) : sv.log[k] = b => \E j \in 1..(k - 1) : sv.log[j] = a
Invocations == {saves[i] : i \in 1..Len(saves)}

\* no syncSupabaseAuth call is pending and no auth state change is undelivered
SyncsFinished == pcListener = "idle" /\ pcSignIn = "idle" /\ authEvents = <<>>

\* no syncSupabaseAuth call of the AuthProvider met a failing SDK call
NoSyncFailed == {listenerSync, signInSync} \cap {"error", "throws"} = {}

\* C1: once every pending syncSupabaseAuth call has finished, the db client
\* and the main client hold the same session, or both hold none.  Stated for
\* the runs most favourable to it, those in which no SDK call of a
\* syncSupabaseAuth failed.
C1_ClientsAgree == (SyncsFinished /\ NoSyncFailed) => dbSession = TokensOf(mainSession)

\* C2: when syncSupabaseAuth read a session from the main client and
\* setSession on the db client succeeded, then on return the db client holds
\* exactly the access and refresh token of the session read, and the main
\* client's session is as it was.
C2_SyncCopiesTokens ==
    [][ /\ (pcListener = "setSession" /\ pcListener' = "idle" /\ listenerSync' = "ok")
            => /\ dbSession'.access_token = listenerSession.access_token
               /\ dbSession'.refresh_token = listenerSession.refresh_token
               /\ mainSession' = mainSession
        /\ (pcSignIn = "setSession" /\ pcSignIn' = "idle" /\ signInSync' = "ok")
            => /\ dbSession'.access_token = signInSession.access_token
               /\ dbSession'.refresh_token = signInSession.refresh_token
               /\ mainSession' = mainSession ]_vars

\* C2's case: signIn's syncSupabaseAuth has returned after a successful
\* setSession, with the first session copied to the db client.
C2_Witness ==
    /\ pcSignIn = "idle"
    /\ signInSync = "ok"
    /\ mainSession = S1
    /\ dbSession = TokensOf(S1)

\* C3: whenever the insert_meal rpc returns an error, the direct insert is
\* attempted with the name, the thumbnail URL and the four rounded nutrient
\* values passed to the rpc; if it succeeds the save is reported a success.
C3_FallbackSameValues ==
    \A sv \in Invocations :
        InLog(sv, "rpcFailed") =>
            /\ InLog(sv, "insert")
            /\ sv.insertRow.name = sv.rpcParams.p_name
            /\ sv.insertRow.image_url = sv.rpcParams.p_thumbnail_url
            /\ sv.insertRow.calories = sv.rpcParams.p_calories
            /\ sv.insertRow.protein = sv.rpcParams.p_protein
            /\ sv.insertRow.carbs = sv.rpcParams.p_carbs
            /\ sv.insertRow.fat = sv.rpcParams.p_fat
            /\ InLog(sv, "insertOk") => (sv.alert = SuccessAlert /\ sv.navigated)

\* C3's case: the rpc returned an error and the direct insert succeeded.
C3_Witness ==
    \E sv \in Invocations :
        /\ InLog(sv, "rpcFailed")
        /\ InLog(sv, "insertOk")
        /\ sv.insertRow.calories = 286
        /\ sv.alert = SuccessAlert

\* C4: the direct insert is issued only in a run in which the rpc was made
\* and failed before it.
C4_InsertOnlyAfterFailedRpc ==
    \A sv \in Invocations :
        InLog(sv, "insert") =>
            /\ Precedes(sv, "rpc", "insert")
            /\ InLog(sv, "rpcFailed")

\* C5: no write (rpc or direct insert) is issued in a run in which the db
\* client's auth.getUser() reported no authenticated user.
C5_NoWriteWithoutUser ==
    \A sv \in Invocations :
        InLog(sv, "noUser") => (~InLog(sv, "rpc") /\ ~InLog(sv, "insert"))

\* C6: at most one invocation of handleSaveMeal is between its start and its
\* completion at any time.
C6_OneSaveInFlight ==
    Cardinality({i \in 1..Len(saves) : saves[i].pc # "done"}) <= 1

\* C7: within one invocation the rpc is issued at most once and the direct
\* insert at most once; if the direct insert fails too, the invocation ends
\* reporting 'Failed to save meal' and does not navigate.
C7_NoRetry ==
    \A sv \in Invocations :
        /\ Count(sv, "rpc") <= 1
        /\ Count(sv, "insert") <= 1
        /\ InLog(sv, "insertFailed") =>
            /\ sv.pc = "done"
            /\ sv.alert = FailedAlert
            /\ ~sv.navigated

\* C7's case: both the rpc and the direct insert were issued and failed.
C7_Witness ==
    \E sv \in Invocations :
        /\ InLog(sv, "rpcFailed")
        /\ InLog(sv, "insertFailed")
        /\ sv.pc = "done"

PathFailures == {"noUser", "getUserThrew", "rpcFailed"}

\* C8: in a run that passes the initial guard the session synchronization
\* completes, then the thumbnail upload is attempted, then the rpc path is
\* entered, then (only when that path failed) the direct insert is issued;
\* no insert is issued before the upload attempt has finished.
C8_StepOrder ==
    \A sv \in Invocations :
        /\ sv.alert # MissingDataAlert => (sv.log # <<>> /\ sv.log[1] = "sync")
        /\ Precedes(sv, "synced", "upload")
        /\ Precedes(sv, "upload", "getUser")
        /\ Precedes(sv, "getUser", "rpc")
        /\ Precedes(sv, "getUser", "insert")
        /\ \A w \in {"getUser", "rpc", "insert"} :
            InLog(sv, w) =>
                \E k \in 1..Len(sv.log) :
                    /\ sv.log[k] \in {"uploadOk", "uploadThrew"}
                    /\ \A j \in 1..Len(sv.log) : sv.log[j] = w => k < j
        /\ InLog(sv, "insert") =>
            \E k \in 1..Len(sv.log) :
                /\ sv.log[k] \in PathFailures
                /\ \A j \in 1..Len(sv.log) : sv.log[j] = "insert" => k < j

\* C8's case: a run went through every step, down to the direct insert.
C8_Witness ==
    \E sv \in Invocations :
        sv.log = <<"sync", "synced", "upload", "uploadOk", "getUser", "user",
                   "rpc", "rpcFailed", "insert", "insertOk">>

\* C9: an invocation with the analysis result, the image URI or the context
\* user missing shows 'Missing data required to save meal', issues no
\* session sync, no upload and no insert, leaves isSaving false and does
\* not navigate.
C9_GuardIssuesNothing ==
    /\ [](\A sv \in Invocations :
            (sv.result = NoResult \/ imageUri = NoUri \/ sv.user = NoUser) =>
                /\ sv.alert = MissingDataAlert
                /\ sv.log = <<>>
                /\ sv.pc = "done"
                /\ ~sv.navigated)
    /\ [][ (/\ Len(saves') = Len(saves) + 1
            /\ \/ saves'[Len(saves')].result = NoResult
               \/ imageUri = NoUri
               \/ saves'[Len(saves')].user = NoUser)
           => /\ isSaving = FALSE
              /\ isSaving' = FALSE
              /\ screen' = screen
              /\ dbSession' = dbSession ]_vars

\* C9's case: Save Meal was tapped while the rendered context user was null.
C9_Witness ==
    \E sv \in Invocations :
        /\ sv.user = NoUser
        /\ sv.result # NoResult
        /\ sv.alert = MissingDataAlert

\* C10: when uploadThumbnail throws, handleSaveMeal goes on to the insert
\* step with the placeholder URL as the thumbnail URL, and whether the save
\* succeeds depends on the insert steps alone.
C10_UploadFailureTolerated ==
    \A sv \in Invocations :
        InLog(sv, "uploadThrew") =>
            /\ InLog(sv, "getUser")
            /\ sv.thumbnailUrl = Placeholder
            /\ InLog(sv, "rpc") => sv.rpcParams.p_thumbnail_url = Placeholder
            /\ InLog(sv, "insert") => sv.insertRow.image_url = Placeholder
            /\ sv.pc = "done" =>
                /\ sv.alert = SuccessAlert <=> (InLog(sv, "rpcOk") \/ InLog(sv, "insertOk"))
                /\ sv.alert = FailedAlert <=> InLog(sv, "insertFailed")

\* C10's case: the upload threw and the save succeeded through the rpc.
C10_Witness ==
    \E sv \in Invocations :
        /\ InLog(sv, "uploadThrew")
        /\ InLog(sv, "rpcOk")
        /\ sv.rpcParams.p_thumbnail_url = Placeholder
        /\ sv.alert = SuccessAlert

\* the step of invocation i that is due, whatever its outcome
SaveStep(i) ==
    \/ saveGetSession(i)
    \/ saveSetSession(i)
    \/ saveUpload(i)
    \/ saveGetUser(i)
    \/ saveRpc(i)
    \/ saveInsert(i)

\* invocation sv passed the guard of handleSaveMeal
PassedGuard(sv) == sv.alert # MissingDataAlert

\* one of the two inserts of invocation sv succeeded
InsertSucceeded(sv) == InLog(sv, "rpcOk") \/ InLog(sv, "insertOk")

\* C11: every invocation of handleSaveMeal that passes the initial guard
\* terminates with isSaving false: until it has ended, its next step can be
\* taken whenever the call it awaits returns, it makes at most eleven calls
\* and returns, and the step on which it ends sets isSaving to false.  It
\* navigates to the tabs dashboard, once, on that last step, if and only if
\* the rpc or the direct insert succeeded, and shows the success alert only
\* in that case.
C11_SaveTerminates ==
    /\ [](\A i \in 1..Len(saves) :
            PassedGuard(saves[i]) =>
                /\ saves[i].pc # "done" => ENABLED SaveStep(i)
                /\ Len(saves[i].log) <= 11
                /\ saves[i].navigated <=> (saves[i].pc = "done" /\ InsertSucceeded(saves[i]))
                /\ saves[i].alert = SuccessAlert <=> saves[i].navigated
                /\ saves[i].alert # NoAlert <=> saves[i].pc = "done")
    /\ [][\A i \in 1..Len(saves) :
            /\ saves[i].pc = "done" => saves'[i] = saves[i]
            /\ (PassedGuard(saves[i]) /\ saves[i].pc # "done" /\ saves'[i].pc = "done") =>
                /\ isSaving' = FALSE
                /\ saves'[i].navigated => screen' = "tabs"
                /\ ~saves'[i].navigated => screen' = screen
            /\ (saves[i].pc # "done" /\ saves'[i].pc # "done") =>
                /\ ~saves'[i].navigated
                /\ Len(saves'[i].log) >= Len(saves[i].log) ]_vars

\* C11's case: one invocation ended in the outer catch, another one ended
\* with a successful direct insert and navigated, and isSaving is false.
C11_Witness ==
    /\ ~isSaving
    /\ \E sv \in Invocations :
        sv.pc = "done" /\ InLog(sv, "insertFailed") /\ sv.alert = FailedAlert /\ ~sv.navigated
    /\ \E sv \in Invocations :
        sv.pc = "done" /\ InLog(sv, "insertOk") /\ sv.alert = SuccessAlert /\ sv.navigated

\* C12: while the auth context's isLoading is true a run of the navigation
\* guard issues no redirect and leaves the route as it is, whatever the
\* user and the current route segment are.
C12_NoRedirectWhileLoading ==
    /\ [](lastRedirect \in {"login", "tabs"} => ~guardDeps.isLoading)
    /\ [][ (RootLayoutNav /\ ctxIsLoading) =>
             /\ lastRedirect' = "skipped"
             /\ segment' = segment ]_vars

\* C12's case: the guard has run while loading with no user outside the
\* (auth) group, where it redirects once loading has finished.
C12_Witness ==
    /\ lastRedirect = "skipped"
    /\ guardDeps = Deps
    /\ ctxIsLoading
    /\ ctxUser = NoUser
    /\ segment = "(tabs)"

\* C13: once auth loading has finished, a run of the navigation guard
\* redirects to the login route exactly when there is no user and the route
\* is outside the (auth) group, to the tabs route exactly when there is a
\* user and the route is inside the (auth) group, and does nothing
\* otherwise.  So whenever the guard has run with the current user and route
\* and has nothing left to do, a missing user is inside the (auth) group and
\* a signed-in user is outside it, and a redirect leads to a route on which
\* the next run does nothing.
C13_GuardPlacesUser ==
    /\ []((guardDeps = Deps /\ ~ctxIsLoading) =>
            /\ lastRedirect = "stay"
            /\ ctxUser = NoUser <=> segment = "(auth)")
    /\ [][ (RootLayoutNav /\ ~ctxIsLoading) =>
             /\ lastRedirect' = "login" <=> (ctxUser = NoUser /\ segment # "(auth)")
             /\ lastRedirect' = "tabs" <=> (ctxUser # NoUser /\ segment = "(auth)")
             /\ lastRedirect' \in {"login", "tabs", "stay"}
             /\ lastRedirect' = "login" => segment' = "(auth)"
             /\ lastRedirect' = "tabs" => segment' = "(tabs)"
             /\ lastRedirect' = "stay" => segment' = segment
             /\ GuardDecision(ctxUser', segment' = "(auth)") = "stay" ]_vars

\* C13's case: the guard has just sent a signed-in user from the (auth)
\* group to the tabs.
C13_Witness ==
    /\ ~ctxIsLoading
    /\ ctxUser # NoUser
    /\ segment = "(tabs)"
    /\ guardDeps = StaleSegments(Deps)
    /\ lastRedirect = "tabs"

\* C14: AuthProvider.signOut sets the context's user and session to null
\* when the backend sign-out returns no error; when the backend sign-out
\* returns an error or throws, signOut leaves user and session as they are,
\* and in every case it returns without throwing.
C14_SignOutClearsOnSuccess ==
    /\ [](lastReturn.op = "signOut" => lastReturn.value = "void")
    /\ [][ signOut =>
             /\ lastReturn'.op = "signOut"
             /\ lastReturn'.sdk = "ok" => (ctxUser' = NoUser /\ ctxSession' = NoSession)
             /\ lastReturn'.sdk \in {"error", "throws"} =>
                   (ctxUser' = ctxUser /\ ctxSession' = ctxSession) ]_vars

\* C14's case: the backend sign-out threw while a user was signed in, and
\* the context still holds the user and the session.
C14_Witness ==
    /\ lastReturn = [op |-> "signOut", sdk |-> "throws", value |-> "void"]
    /\ ctxUser # NoUser
    /\ ctxSession # NoSession

\* C15: AuthProvider.signIn never throws.  When signInWithEmail returns an
\* error or throws, signIn returns the error on that step and calls no
\* syncSupabaseAuth; when it succeeds, signIn does not return before its
\* syncSupabaseAuth call has ended, and then returns {error: null}.
C15_SignInReturns ==
    /\ [](lastReturn.op = "signIn" => lastReturn.value \in {"null", "error"})
    /\ [][ /\ (signIn /\ pcSignIn' = "idle") =>
                /\ lastReturn'.op = "signIn"
                /\ lastReturn'.sdk \in {"error", "throws"}
                /\ lastReturn'.value = "error"
                /\ signInSync' = signInSync
                /\ dbSession' = dbSession
           /\ (signIn /\ pcSignIn' # "idle") =>
                /\ lastReturn' = lastReturn
                /\ pcSignIn' = "getSession"
           /\ (pcSignIn # "idle" /\ pcSignIn' # "idle") =>
                (lastReturn' = lastReturn \/ lastReturn'.op # "signIn")
           /\ (pcSignIn # "idle" /\ pcSignIn' = "idle") =>
                /\ signInGetSession \/ signInSetSession
                /\ signInSync' \in {"ok", "error", "throws", "noSession"}
                /\ lastReturn' = [op |-> "signIn", sdk |-> "ok", value |-> "null"] ]_vars

\* C15's case: signInWithEmail succeeded, the syncSupabaseAuth call gave the
\* db client the tokens of the new session, and signIn returned {error: null}.
C15_Witness ==
    /\ lastReturn = [op |-> "signIn", sdk |-> "ok", value |-> "null"]
    /\ pcSignIn = "idle"
    /\ signInSync = "ok"
    /\ mainSession # NoSession
    /\ dbSession = TokensOf(mainSession)

\* C16: syncSupabaseAuth never throws or rejects: when reading the main
\* session or setting the db session fails, its caller goes on as after a
\* successful call (signIn returns {error: null}).  When the main client has
\* no session, setSession is not called and the db client's session stays
\* as it is.
C16_SyncNeverRejects ==
    /\ [](/\ pcSignIn = "setSession" => signInSession # NoSession
          /\ pcListener = "setSession" => listenerSession # NoSession)
    /\ [][ /\ (signInGetSession /\ signInSession' = NoSession) =>
                /\ pcSignIn' = "idle"
                /\ dbSession' = dbSession
                /\ signInSync' \in {"noSession", "throws"}
                /\ lastReturn'.value = "null"
           /\ signInSetSession =>
                /\ pcSignIn' = "idle"
                /\ lastReturn'.value = "null"
           /\ (listenerGetSession /\ listenerSession' = NoSession) =>
                /\ pcListener' = "idle"
                /\ dbSession' = dbSession
                /\ listenerSync' \in {"noSession", "throws"}
           /\ listenerSetSession => pcListener' = "idle" ]_vars

\* C16's case: signIn's syncSupabaseAuth found no session on the main client
\* (the user had signed out meanwhile); the db client kept the tokens it
\* had, and signIn returned {error: null}.
C16_Witness ==
    /\ signInSync = "noSession"
    /\ pcSignIn = "idle"
    /\ lastReturn = [op |-> "signIn", sdk |-> "ok", value |-> "null"]
    /\ mainSession = NoSession
    /\ dbSession # NoTokens

\* C17: on the results screen every analysis attempt (analyzeFood) ends with
\* isLoading false; error is cleared at the start of each attempt; on
\* success the result is set and error stays unset; on failure error is set
\* and the result is left as it was.  When no image URI was provided no
\* analysis call is made, error is 'No image provided' and isLoading is
\* false.
C17_AnalysisAttempts ==
    /\ [](imageUri = NoUri =>
            /\ analyzing = 0
            /\ screen # "camera" => (error = NoImageError /\ ~isLoading))
    /\ [][ /\ analyzeFood =>
                /\ isLoading' = FALSE
                /\ \/ result' \in Results /\ error' = NoError
                   \/ error' = AnalysisError /\ result' = result
           /\ analyzing' > analyzing => error' = NoError ]_vars

\* the state of CameraScreen that its handlers set
CameraState == <<isCapturing, capturedImage, isAnalyzing, hasGalleryPermission,
                 hasCameraPermission, hasMediaLibraryPermission>>

\* C18: handleAnalyzeImage does nothing when its render captured no image.
\* Otherwise it pushes the results route, with the URI processImageForAI
\* resolved to as imageUri, if and only if processImageForAI succeeded; when
\* processing fails it pushes nothing and resets isAnalyzing to false.
C18_AnalyzeNavigatesOnSuccess ==
    /\ [](\A i \in 1..Len(analyses) :
            LET a == analyses[i] IN
            /\ a.outcome = "noImage" <=> a.image = NoImage
            /\ a.outcome = "noImage" => (a.pc = "done" /\ a.pushed = NoUri)
            /\ a.outcome = "throws" => a.pushed = NoUri
            /\ a.outcome = "ok" => a.pushed = Processed(a.image)
            /\ a.pushed # NoUri => (a.outcome = "ok" /\ a.pc = "done"))
    /\ [][ /\ (handleAnalyzeImage /\ camView.capturedImage = NoImage) =>
                UNCHANGED CameraState
           /\ \A i \in 1..Len(analyses) :
                (analyses[i].pc = "processing" /\ analyses'[i].outcome = "throws") =>
                    isAnalyzing' = FALSE ]_vars

\* C18's case: processImageForAI succeeded on a photo and the results route
\* was pushed with the processed URI.
C18_Witness ==
    \E i \in 1..Len(analyses) :
        /\ analyses[i].image = Photo
        /\ analyses[i].outcome = "ok"
        /\ analyses[i].pushed = Processed(Photo)
        /\ isAnalyzing

\* C19: handleGalleryOpen launches the image picker only when its render
\* held the gallery permission or the request it made was granted.  When
\* the request is denied or throws the picker is not launched, and then, as
\* when the picker is cancelled, returns no asset or throws, capturedImage
\* stays as it is.
C19_PickerNeedsPermission ==
    /\ [](\A i \in 1..Len(gallery) :
            LET g == gallery[i] IN
            /\ (g.pc = "picker" \/ g.picker # "none") => g.permission \in {"held", "granted"}
            /\ g.permission \in {"denied", "throws"} => (g.pc = "done" /\ g.picker = "none"))
    /\ [][ /\ Len(gallery') > Len(gallery) =>
                /\ gallery'[Len(gallery')].permission = "held"
                      <=> camView.hasGalleryPermission = "granted"
                /\ gallery'[Len(gallery')].permission \in {"held", "none"}
                /\ capturedImage' = capturedImage
           /\ \A i \in 1..Len(gallery) :
                (/\ gallery'[i] # gallery[i]
                 /\ \/ gallery'[i].permission \in {"denied", "throws"}
                    \/ gallery'[i].picker \in {"canceled", "noAsset", "throws"}
                    \/ gallery'[i].pc = "picker")
                => capturedImage' = capturedImage ]_vars

\* C19's case: a photo was taken, then the gallery was opened without the
\* permission and the request was denied: the photo is still the captured
\* image.
C19_Witness ==
    /\ capturedImage = Photo
    /\ \E i \in 1..Len(gallery) :
        /\ gallery[i].permission = "denied"
        /\ gallery[i].pc = "done"

\* C20: takePicture changes nothing when no camera handle is mounted.
\* Otherwise it ends with isCapturing false whether the capture succeeded or
\* failed, and it sets capturedImage when the capture succeeded and only
\* then.
C20_TakePictureEnds ==
    /\ [](\A i \in 1..Len(captures) :
            captures[i].outcome = "noHandle" => captures[i].pc = "done")
    /\ [][ /\ (takePicture /\ ~cameraRef) =>
                /\ UNCHANGED CameraState
                /\ captures'[Len(captures')].outcome = "noHandle"
           /\ (takePicture /\ cameraRef) =>
                /\ capturedImage' = capturedImage
                /\ captures'[Len(captures')].pc = "capturing"
           /\ \A i \in 1..Len(captures) :
                (captures[i].pc = "capturing" /\ captures'[i].pc = "done") =>
                    /\ isCapturing' = FALSE
                    /\ captures'[i].outcome \in {"ok", "throws"}
                    /\ captures'[i].outcome = "ok" => capturedImage' = Photo
                    /\ captures'[i].outcome = "throws" => capturedImage' = capturedImage ]_vars

\* C20's case: one press found no camera handle, another one captured a
\* photo, and isCapturing is false.
C20_Witness ==
    /\ ~isCapturing
    /\ capturedImage = Photo
    /\ \E i \in 1..Len(captures) : captures[i].outcome = "noHandle"
    /\ \E i \in 1..Len(captures) : captures[i].outcome = "ok"

\* C21: if the camera permission was found not granted when the camera
\* screen mounted (hasCameraPermission is false, the permission view is
\* shown) and the user has then granted it through the Grant Permission
\* button (the hook's permission is granted), hasCameraPermission eventually
\* becomes true and the screen shows the camera.
C21_GrantLeavesPermissionView ==
    (hasCameraPermission = "denied" /\ permission = "granted")
        ~> (hasCameraPermission = "granted")

====
